---- MODULE Spec2Model ----
(***************************************************************************)
(* Model of the song-director server (src/src/main.rs): one tokio watch    *)
(* channel holding the SectionTuple, three control handlers that write it, *)
(* two page handlers that read it, and one section_socket task per         *)
(* websocket connection that pushes the rendered section on every change   *)
(* it observes.                                                            *)
(***************************************************************************)
EXTENDS Integers, Sequences, FiniteSets, TLC

\* ---------------------------------------------------------------- bounds
NumSessions == 2        \* websocket connections that may be opened
MaxWrites == 2          \* control requests that reach the watch sender
MaxNumber == 1          \* largest section_number a request carries
MaxInbound == 1         \* frames a peer may have in flight towards the server

Sessions == 1..NumSessions
Letters == {"A", "B"}
\* what the form field section_number may denote: negative, zero, positive
NumberInputs == (-1)..MaxNumber

\* Option<T>: None is the empty tuple, Some(x) the one-element tuple
None == <<>>
Some(x) == <<x>>
IsSome(o) == o # None
Unwrap(o) == o[1]

\* type SectionTuple = (Option<char>, Option<NonZeroUsize>)
SectionTuple == ({None} \cup {Some(l) : l \in Letters})
                \X ({None} \cup {Some(n) : n \in 1..MaxNumber})

VARIABLES
    section,      \* the value held by the watch channel
    version,      \* the channel's version: number of sends since channel()
    pc,           \* per session: position of the section_socket task
    rxVersion,    \* per session: version its Receiver has marked as seen
    recvOff,      \* per session: recv() branch of the current select! is disabled
    inbound,      \* per session: what the peer sent and recv() has not yielded yet:
                  \* frames, then "End" once the stream has ended
    msg,          \* per session: rendered text handed to socket.send
    nPushed,      \* per session: messages socket.send has delivered
    lastPushed,   \* per session: the last message delivered (None before the first)
    connVersion,  \* per session: channel version when the task started
    why,          \* per session: what made the task return ("" while it has not)
    quiet,        \* per session: it was waiting with nothing unseen at the last send
    sinceWrite,   \* per quiet session: messages delivered since the last send
    lastReq,      \* the last control request: route, input, status and the
                  \* section it found
    senders,      \* live Sender handles of the watch channel
    guard,        \* per session: its task holds a Ref from section_rx.borrow()
    page,         \* the last response of a page handler (None before the first)
    ops,          \* the requests that reached the watch sender, in order
    msgIdx,       \* per session: channel version of the value rendered into msg
    lastIdx       \* per session: channel version of the value last delivered

vars == <<section, version, pc, rxVersion, recvOff, inbound, msg,
          nPushed, lastPushed, connVersion, why, quiet, sinceWrite, lastReq,
          senders, guard, page, ops, msgIdx, lastIdx>>

sessVars == <<pc, rxVersion, recvOff, inbound, msg, nPushed,
              lastPushed, connVersion, why, guard>>
cellVars == <<section, version, lastReq, quiet, sinceWrite, senders>>

\* What the actions of the program do not mention: the page handlers' response
\* and the record of writes and reads.  A specification either leaves them
\* alone (Untraced) or keeps them alongside each step (the Traced actions).
traceVars == <<page, ops, msgIdx, lastIdx>>
Untraced == UNCHANGED traceVars

\* ------------------------------------------------------------ projection
ZeroWidthSpace == "U+200B"

Digit(d) == <<"0", "1", "2", "3", "4", "5", "6", "7", "8", "9">>[d + 1]

RECURSIVE Decimal(_)
\* Display of an unsigned integer: its decimal digits, most significant first
Decimal(n) == IF n < 10 THEN <<Digit(n)>>
              ELSE Decimal(n \div 10) \o <<Digit(n % 10)>>

\* As if a number without a letter were displayed instead of being ignored
section_segments_to_string_number_alone(segments) ==
    IF IsSome(segments[1])
    THEN IF IsSome(segments[2])
         THEN <<Unwrap(segments[1])>> \o Decimal(Unwrap(segments[2]))
         ELSE <<Unwrap(segments[1])>>
    ELSE IF IsSome(segments[2])
         THEN Decimal(Unwrap(segments[2]))
         ELSE <<ZeroWidthSpace>>

\* fn section_segments_to_string(segments: &SectionTuple) -> String
section_segments_to_string(segments) ==
    IF IsSome(segments[1])
    THEN IF IsSome(segments[2])
         THEN <<Unwrap(segments[1])>> \o Decimal(Unwrap(segments[2]))
         ELSE <<Unwrap(segments[1])>>
    ELSE <<ZeroWidthSpace>>

\* tera.render("fragments/section-display.html", &context) on success: the
\* fragment with song_section filled in
RenderFragment(text) ==
    [view |-> "fragments/section-display.html", song_section |-> text]

\* ------------------------------------------------------------------ init
NoRequest ==
    [route |-> "none", input |-> None, status |-> 0, before |-> <<None, None>>]

\* As if section_tx were dropped when main's binding goes out of use
DroppedSenders == Cardinality({})

\* Box::leak(Box::new(section_tx)): the one Sender is never dropped, and
\* AppState carries a reference to it, so no handler owns or drops a Sender
LeakedSenders == 1

Init ==
    /\ section = <<None, None>>
    /\ version = 0
    /\ pc = [s \in Sessions |-> "idle"]
    /\ rxVersion = [s \in Sessions |-> 0]
    /\ recvOff = [s \in Sessions |-> FALSE]
    /\ inbound = [s \in Sessions |-> <<>>]
    /\ msg = [s \in Sessions |-> None]
    /\ nPushed = [s \in Sessions |-> 0]
    /\ lastPushed = [s \in Sessions |-> None]
    /\ connVersion = [s \in Sessions |-> 0]
    /\ why = [s \in Sessions |-> ""]
    /\ quiet = [s \in Sessions |-> FALSE]
    /\ sinceWrite = [s \in Sessions |-> 0]
    /\ lastReq = NoRequest
    /\ senders = LeakedSenders
    /\ guard = [s \in Sessions |-> FALSE]
    /\ page = None
    /\ ops = <<>>
    /\ msgIdx = [s \in Sessions |-> 0]
    /\ lastIdx = [s \in Sessions |-> 0]

\* ------------------------------------------------------- watch channel
\* What every send on the watch Sender does besides storing the value: the
\* version is incremented and the waiters notified, with no comparison of the
\* old and the new value.  The value is written under the channel's RwLock, so
\* the send proceeds once no Ref is out.  quiet and sinceWrite record, for the
\* claims, which
\* sessions were waiting with nothing unseen when the send happened.
NotifyIfModified ==
    /\ \A s \in Sessions : ~guard[s]
    /\ version' = IF section' = section THEN version ELSE version + 1
    /\ quiet' = [s \in Sessions |-> pc[s] = "select" /\ rxVersion[s] = version]
    /\ sinceWrite' = [s \in Sessions |-> 0]

Notify ==
    /\ \A s \in Sessions : ~guard[s]
    /\ version' = version + 1
    /\ quiet' = [s \in Sessions |-> pc[s] = "select" /\ rxVersion[s] = version]
    /\ sinceWrite' = [s \in Sessions |-> 0]

\* As if the two fields were stored one after the other and the channel
\* became readable in between: the letter is new, the number still the old one
send_replace_torn(value) ==
    /\ section' = <<value[1], section[2]>>
    /\ Notify

\* section_tx.send_replace(value)
send_replace(value) ==
    /\ section' = value
    /\ Notify

\* As if the handler replaced the whole tuple instead of modifying one field
send_replace_number(section_number) ==
    /\ section' = <<None, Some(section_number)>>
    /\ Notify

\* section_tx.send_modify(|val| val.1 = Some(section_number)): the closure runs
\* on the stored value under the channel's write lock
send_modify_number(section_number) ==
    /\ section' = <<section[1], Some(section_number)>>
    /\ Notify

\* As if sessions took their Receiver from section_tx.subscribe(), which marks
\* the current version as seen
SubscribedRxVersion == version

\* The version a Receiver cloned from AppState.section_rx starts with: the
\* Receiver returned by channel() has seen the initial value (version 0), no
\* handler ever marks it, and Clone copies its version.
AppStateRxVersion == 0

\* --------------------------------------------------- control handlers
Request(route, input, status) ==
    lastReq' = [route |-> route, input |-> input, status |-> status,
                before |-> section]

\* As if the handler modified the letter alone and kept the number
set_section_type_keeping_number(section_type) ==
    /\ version < MaxWrites
    /\ section' = <<Some(section_type), section[2]>>
    /\ Notify
    /\ Request("PUT /section/type", section_type, 204)
    /\ UNCHANGED <<sessVars, senders>>

\* PUT /section/type
set_section_type(section_type) ==
    /\ version < MaxWrites
    /\ send_replace(<<Some(section_type), None>>)
    /\ Request("PUT /section/type", section_type, 204)
    /\ UNCHANGED <<sessVars, senders>>

\* As if section_number were a plain usize: zero is accepted
FormSectionNumberUsize(input) ==
    IF input < 0 THEN None ELSE Some(input)

\* Form<SectionNumber>: section_number deserializes into NonZeroUsize, so the
\* text must denote an unsigned integer (no sign) that is not zero
FormSectionNumber(input) ==
    IF input < 0 THEN None
    ELSE IF input = 0 THEN None
    ELSE Some(input)

\* PUT /section/number, handler body
set_section_number(section_number) ==
    /\ version < MaxWrites
    /\ send_modify_number(section_number)
    /\ Request("PUT /section/number", section_number, 204)
    /\ UNCHANGED <<sessVars, senders>>

\* PUT /section/number as routed: the extractor rejects the request before
\* the handler is called
PutSectionNumber(input) ==
    IF IsSome(FormSectionNumber(input))
    THEN set_section_number(Unwrap(FormSectionNumber(input)))
    ELSE /\ Request("PUT /section/number", input, 422)
         /\ UNCHANGED <<section, version, quiet, sinceWrite>>
         /\ UNCHANGED <<sessVars, senders>>

\* As if the handler cleared the letter alone and kept the number
clear_section_keeping_number ==
    /\ version < MaxWrites
    /\ section' = <<None, section[2]>>
    /\ Notify
    /\ Request("DELETE /section", None, 204)
    /\ UNCHANGED <<sessVars, senders>>

\* DELETE /section
clear_section ==
    /\ version < MaxWrites
    /\ send_replace(<<None, None>>)
    /\ Request("DELETE /section", None, 204)
    /\ UNCHANGED <<sessVars, senders>>

\* ------------------------------------------------------ section_socket
Open(s) == pc[s] \in {"select", "render", "send"}

\* As if a returning task shut the shared channel down, ending every session
ReturnAll(s) ==
    /\ pc' = [t \in Sessions |-> IF Open(t) THEN "closed" ELSE pc[t]]
    /\ rxVersion' = [t \in Sessions |-> 0]
    /\ recvOff' = [t \in Sessions |-> FALSE]
    /\ inbound' = [t \in Sessions |-> <<>>]
    /\ msg' = [t \in Sessions |-> None]
    /\ lastPushed' = [t \in Sessions |-> None]
    /\ connVersion' = [t \in Sessions |-> 0]
    /\ quiet' = [t \in Sessions |-> FALSE]
    /\ sinceWrite' = [t \in Sessions |-> 0]
    /\ guard' = [t \in Sessions |-> FALSE]
    /\ UNCHANGED <<nPushed, section, version, lastReq, senders>>

\* The task returns: socket, Receiver and pending message are dropped.  Of
\* the bookkeeping only the count of delivered messages outlives the task.
Return(s) ==
    /\ pc' = [pc EXCEPT ![s] = "closed"]
    /\ rxVersion' = [rxVersion EXCEPT ![s] = 0]
    /\ recvOff' = [recvOff EXCEPT ![s] = FALSE]
    /\ inbound' = [inbound EXCEPT ![s] = <<>>]
    /\ msg' = [msg EXCEPT ![s] = None]
    /\ lastPushed' = [lastPushed EXCEPT ![s] = None]
    /\ connVersion' = [connVersion EXCEPT ![s] = 0]
    /\ quiet' = [quiet EXCEPT ![s] = FALSE]
    /\ sinceWrite' = [sinceWrite EXCEPT ![s] = 0]
    /\ guard' = [guard EXCEPT ![s] = FALSE]
    /\ UNCHANGED <<nPushed, section, version, lastReq, senders>>

\* section_ws_handler: on_upgrade spawns section_socket with a clone of
\* AppState.section_rx
section_ws_handler(s) ==
    /\ pc[s] = "idle"
    /\ pc' = [pc EXCEPT ![s] = "select"]
    /\ rxVersion' = [rxVersion EXCEPT ![s] = AppStateRxVersion]
    /\ connVersion' = [connVersion EXCEPT ![s] = version]
    /\ UNCHANGED <<recvOff, inbound, msg, nPushed, lastPushed, why, guard>>
    /\ UNCHANGED cellVars

\* socket.recv() is polled first (biased) and is ready when a frame is queued
\* or the stream has ended
RecvReady(s) == inbound[s] # <<>>

\* select! branch 1: recv() yields Some(Ok(Message::Close(_)))
RecvClose(s) ==
    /\ pc[s] = "select"
    /\ ~recvOff[s]
    /\ inbound[s] # <<>>
    /\ Head(inbound[s]) = "Close"
    /\ Return(s)
    /\ why' = [why EXCEPT ![s] = "close frame"]

\* select! branch 1: recv() yields a value the pattern does not match (another
\* frame, or None once the stream has ended): the branch is disabled for the
\* rest of this select! and the task keeps waiting on changed()
RecvOther(s) ==
    /\ pc[s] = "select"
    /\ ~recvOff[s]
    /\ inbound[s] # <<>>
    /\ Head(inbound[s]) # "Close"
    /\ inbound' = [inbound EXCEPT ![s] =
                     IF Head(@) = "End" THEN @ ELSE Tail(@)]
    /\ recvOff' = [recvOff EXCEPT ![s] = TRUE]
    /\ UNCHANGED <<pc, rxVersion, msg, nPushed, lastPushed, connVersion, why, guard>>
    /\ UNCHANGED cellVars

\* As if changed() returned without marking the version it reports as seen
ChangedUnmarked(s) ==
    /\ pc[s] = "select"
    /\ recvOff[s] \/ ~RecvReady(s)
    /\ rxVersion[s] # version
    /\ recvOff' = [recvOff EXCEPT ![s] = FALSE]
    /\ pc' = [pc EXCEPT ![s] = "render"]
    /\ UNCHANGED <<rxVersion, inbound, msg, nPushed, lastPushed, connVersion,
                   why, guard>>
    /\ UNCHANGED cellVars

\* select! branch 2: section_rx.changed() returns Ok once the channel version
\* differs from the one the Receiver has seen, and marks the new one seen.
\* The select! is over, and with it the state of its branches.  With nothing
\* unseen it returns Err once every Sender is gone: the task closes the socket
\* and returns.  While a Sender lives it stays pending.
Changed(s) ==
    /\ pc[s] = "select"
    /\ recvOff[s] \/ ~RecvReady(s)
    /\ IF rxVersion[s] # version
       THEN /\ rxVersion' = [rxVersion EXCEPT ![s] = version]
            /\ recvOff' = [recvOff EXCEPT ![s] = FALSE]
            /\ pc' = [pc EXCEPT ![s] = "render"]
            /\ UNCHANGED <<inbound, msg, nPushed, lastPushed, connVersion,
                           why, guard>>
            /\ UNCHANGED cellVars
       ELSE /\ senders = 0
            /\ Return(s)
            /\ why' = [why EXCEPT ![s] = "channel closed"]

\* As if every second render of a session read a Receiver that was left at
\* the initial value
borrow_alternating(s) ==
    IF nPushed[s] % 2 = 0
    THEN [value |-> section, idx |-> version]
    ELSE [value |-> <<None, None>>, idx |-> 0]

\* section_rx.borrow() reads the value the channel holds now: the one stored
\* by the send that made the channel's version what it is (idx)
borrow(s) == [value |-> section, idx |-> version]

\* As if the Ref were bound to a variable of the loop body (let section =
\* section_rx.borrow();) and so lived until the end of the iteration
RefHeldUntilIterationEnds == TRUE

\* The Ref returned by section_rx.borrow() is a temporary of the
\* context.insert statement: it is dropped when the statement ends, before
\* tera.render and before socket.send is awaited
RefHeldAfterInsert == FALSE

\* section_rx.borrow(), section_segments_to_string and tera.render: Ok
RenderOk(s) ==
    /\ pc[s] = "render"
    /\ msg' = [msg EXCEPT ![s] =
                 Some(RenderFragment(section_segments_to_string(borrow(s).value)))]
    /\ guard' = [guard EXCEPT ![s] = RefHeldAfterInsert]
    /\ pc' = [pc EXCEPT ![s] = "send"]
    /\ UNCHANGED <<rxVersion, recvOff, inbound, nPushed, lastPushed, connVersion, why>>
    /\ UNCHANGED cellVars

\* As if the render error were sent to the viewer before the task returns
RenderErrPushed(s) ==
    /\ pc[s] = "render"
    /\ pc' = [pc EXCEPT ![s] = "closed"]
    /\ nPushed' = [nPushed EXCEPT ![s] = @ + 1]
    /\ rxVersion' = [rxVersion EXCEPT ![s] = 0]
    /\ lastPushed' = [lastPushed EXCEPT ![s] = None]
    /\ connVersion' = [connVersion EXCEPT ![s] = 0]
    /\ quiet' = [quiet EXCEPT ![s] = FALSE]
    /\ sinceWrite' = [sinceWrite EXCEPT ![s] = 0]
    /\ inbound' = [inbound EXCEPT ![s] = <<>>]
    /\ why' = [why EXCEPT ![s] = "render error"]
    /\ guard' = [guard EXCEPT ![s] = FALSE]
    /\ UNCHANGED <<recvOff, msg, section, version, lastReq, senders>>

\* tera.render returns Err: the task logs and returns
RenderErr(s) ==
    /\ pc[s] = "render"
    /\ Return(s)
    /\ why' = [why EXCEPT ![s] = "render error"]

\* socket.send(Message::Text(message_text)).await returns Ok: next iteration
\* of the loop, with a fresh select!
SendOk(s) ==
    /\ pc[s] = "send"
    /\ nPushed' = [nPushed EXCEPT ![s] = @ + 1]
    /\ lastPushed' = [lastPushed EXCEPT ![s] = msg[s]]
    /\ sinceWrite' = [sinceWrite EXCEPT ![s] = IF quiet[s] THEN @ + 1 ELSE @]
    /\ msg' = [msg EXCEPT ![s] = None]
    /\ pc' = [pc EXCEPT ![s] = "select"]
    /\ guard' = [guard EXCEPT ![s] = FALSE]
    /\ UNCHANGED <<rxVersion, recvOff, inbound, connVersion, why>>
    /\ UNCHANGED <<section, version, lastReq, quiet, senders>>

\* socket.send returns Err: the task logs and returns
SendErr(s) ==
    /\ pc[s] = "send"
    /\ Return(s)
    /\ why' = [why EXCEPT ![s] = "send error"]

\* One step of the section_socket task of session s
SessionStep(s) ==
    \/ RecvClose(s) /\ Untraced
    \/ RecvOther(s) /\ Untraced
    \/ Changed(s) /\ Untraced
    \/ RenderOk(s) /\ Untraced
    \/ RenderErr(s) /\ Untraced
    \/ SendOk(s) /\ Untraced
    \/ SendErr(s) /\ Untraced

\* ---------------------------------------------------------------- peer
\* Nothing follows a close frame or the end of the stream
StreamOpen(s) ==
    \A i \in 1..Len(inbound[s]) : inbound[s][i] \notin {"Close", "End"}

\* The client sends a frame
PeerSend(s, frame) ==
    /\ Open(s)
    /\ StreamOpen(s)
    /\ Len(inbound[s]) < MaxInbound
    /\ inbound' = [inbound EXCEPT ![s] = Append(@, frame)]
    /\ UNCHANGED <<pc, rxVersion, recvOff, msg, nPushed, lastPushed,
                   connVersion, why, guard>>
    /\ UNCHANGED cellVars

\* The client's side of the transport goes away without a close frame
PeerDrop(s) ==
    /\ Open(s)
    /\ StreamOpen(s)
    /\ inbound' = [inbound EXCEPT ![s] = Append(@, "End")]
    /\ UNCHANGED <<pc, rxVersion, recvOff, msg, nPushed, lastPushed,
                   connVersion, why, guard>>
    /\ UNCHANGED cellVars

\* -------------------------------------------------------- page handlers
\* What controller and view make of the channel: they borrow the value, turn
\* it into the song_section of the context and render their template, with
\* nothing awaited in between.  idx is the channel version of the value read.
PageOk(template) ==
    [status |-> 200, view |-> template, seen |-> section,
     song_section |-> section_segments_to_string(section), idx |-> version]

\* tera.render returns Err: AppError::TemplateError, 500 Internal Server Error
PageErr(template) ==
    [status |-> 500, view |-> template, seen |-> section,
     song_section |-> <<>>, idx |-> version]

\* GET /
controller ==
    /\ page' \in {Some(PageOk("controller.html")), Some(PageErr("controller.html"))}
    /\ UNCHANGED <<sessVars, cellVars>>

\* GET /view
view ==
    /\ page' \in {Some(PageOk("viewer.html")), Some(PageErr("viewer.html"))}
    /\ UNCHANGED <<sessVars, cellVars>>

\* ---------------------------------------------------------------- spec
Next ==
    \/ (\E l \in Letters : set_section_type(l)) /\ Untraced
    \/ (\E i \in NumberInputs : PutSectionNumber(i)) /\ Untraced
    \/ clear_section /\ Untraced
    \/ (\E s \in Sessions : section_ws_handler(s)) /\ Untraced
    \/ \E s \in Sessions : SessionStep(s)
    \/ (\E s \in Sessions : \E f \in {"Close", "Text"} : PeerSend(s, f)) /\ Untraced
    \/ (\E s \in Sessions : PeerDrop(s)) /\ Untraced

Spec == Init /\ [][Next]_vars

\* The tokio runtime polls every task that is ready: a section_socket task
\* whose select!, render or send can proceed eventually does.  Requests and
\* peers are under no obligation.
FairSpec == Spec /\ \A s \in Sessions : WF_vars(SessionStep(s))

\* ------------------------------------------------- record of the run
\* One entry of ops: a request that reached the watch sender
Op(route, input) == [route |-> route, input |-> input]

Logged(op) ==
    /\ ops' = Append(ops, op)
    /\ UNCHANGED <<page, msgIdx, lastIdx>>

TracedPutSectionNumber(input) ==
    /\ PutSectionNumber(input)
    /\ IF IsSome(FormSectionNumber(input))
       THEN Logged(Op("PUT /section/number", Unwrap(FormSectionNumber(input))))
       ELSE Untraced

\* A control request, with the ones that wrote appended to ops
TracedRequest(numbers) ==
    \/ \E l \in Letters :
           set_section_type(l) /\ Logged(Op("PUT /section/type", l))
    \/ \E i \in numbers : TracedPutSectionNumber(i)
    \/ clear_section /\ Logged(Op("DELETE /section", None))

\* A page request
PageRequest ==
    \/ controller /\ UNCHANGED <<ops, msgIdx, lastIdx>>
    \/ view /\ UNCHANGED <<ops, msgIdx, lastIdx>>

\* The record of a returning task goes with it
Forget(s) ==
    /\ msgIdx' = [msgIdx EXCEPT ![s] = 0]
    /\ lastIdx' = [lastIdx EXCEPT ![s] = 0]
    /\ UNCHANGED <<page, ops>>

\* One step of the section_socket task of session s, with the channel version
\* of what it renders and delivers kept in msgIdx and lastIdx
TracedSessionStep(s) ==
    \/ Changed(s) /\ Untraced
    \/ /\ RenderOk(s)
       /\ msgIdx' = [msgIdx EXCEPT ![s] = borrow(s).idx]
       /\ UNCHANGED <<page, ops, lastIdx>>
    \/ RenderErr(s) /\ Forget(s)
    \/ /\ SendOk(s)
       /\ lastIdx' = [lastIdx EXCEPT ![s] = msgIdx[s]]
       /\ msgIdx' = [msgIdx EXCEPT ![s] = 0]
       /\ UNCHANGED <<page, ops>>
    \/ SendErr(s) /\ Forget(s)

\* The server with its writes and reads on record.  The peers stay silent:
\* what a session reads and when does not depend on the frames it receives.
TraceNext ==
    \/ TracedRequest(NumberInputs)
    \/ PageRequest
    \/ (\E s \in Sessions : section_ws_handler(s)) /\ Untraced
    \/ \E s \in Sessions : TracedSessionStep(s)

TraceSpec == Init /\ [][TraceNext]_vars

\* The control and page handlers alone, over a wider range of numbers
MaxPageNumber == 11
PageNumberInputs == (-1)..MaxPageNumber

PageNext ==
    \/ TracedRequest(PageNumberInputs)
    \/ PageRequest

PageSpec == Init /\ [][PageNext]_vars

\* -------------------------------------------------------------- claims
\* A session that is waiting in select! with no unseen change: it pushes
\* nothing until the next send on the channel
Waiting(s) == pc[s] = "select" /\ rxVersion[s] = version

\* C1: every session pushes one rendered projection of the current section
\* before it waits for a change, whenever it connects: no session is ever
\* waiting for a change without having pushed.
C1_PushBeforeWaiting ==
    \A s \in Sessions : Waiting(s) => nPushed[s] >= 1

\* The fragment a viewer should be showing for the section as it is now
Current == Some(RenderFragment(section_segments_to_string(section)))

\* C2: a session that stays open, its peer neither closing nor going away,
\* ends up, once the requests have stopped, with at least one message pushed
\* and the projection of the final section as the last one.
C2_FinalStateDelivered ==
    \A s \in Sessions :
        <>[](Open(s) /\ StreamOpen(s))
            => <>[](nPushed[s] >= 1 /\ lastPushed[s] = Current)

\* C3: a session that connected after at least one send has the change
\* pending from the start (it needs no further send to push), and as long as no
\* send follows its connection it pushes at most one message, the projection of
\* the current section, and has pushed exactly one when it is waiting again.
C3_LateJoin ==
    \A s \in Sessions :
        (Open(s) /\ connVersion[s] >= 1) =>
            /\ (pc[s] = "select" /\ nPushed[s] = 0) => rxVersion[s] # version
            /\ version = connVersion[s] =>
                 /\ nPushed[s] <= 1
                 /\ nPushed[s] = 1 => lastPushed[s] = Current
                 /\ Waiting(s) => nPushed[s] = 1

C3_Witness ==
    \E s \in Sessions :
        /\ connVersion[s] >= 2
        /\ version = connVersion[s]
        /\ Waiting(s)
        /\ nPushed[s] = 1

\* C4: after PUT /section/type with a letter the section is
\* (Some(letter), None), whatever section the request found.
C4_SetCategoryResetsNumber ==
    (lastReq.route = "PUT /section/type" /\ lastReq.status = 204) =>
        section = <<Some(lastReq.input), None>>

C4_Witness ==
    /\ lastReq.route = "PUT /section/type"
    /\ IsSome(lastReq.before[2])
    /\ section[2] = None

\* C5: after an accepted PUT /section/number with n the section is the
\* category the request found together with Some(n).
C5_SetNumberKeepsCategory ==
    (lastReq.route = "PUT /section/number" /\ lastReq.status = 204) =>
        section = <<lastReq.before[1], Some(lastReq.input)>>

C5_Witness ==
    /\ lastReq.route = "PUT /section/number"
    /\ lastReq.status = 204
    /\ IsSome(lastReq.before[1])
    /\ lastReq.before[2] = None

\* C6: every accepted control request fires one notification, equal value or
\* not: a session that was waiting with nothing unseen when the request was
\* served has the change pending until it takes it, pushes at most one message
\* before the next request, and has pushed exactly one when it waits again.
C6_OneNotificationPerCall ==
    \A s \in Sessions :
        (Open(s) /\ quiet[s]) =>
            /\ sinceWrite[s] <= 1
            /\ (pc[s] = "select" /\ sinceWrite[s] = 0) => rxVersion[s] # version
            /\ Waiting(s) => sinceWrite[s] = 1

C6_Witness ==
    /\ lastReq.status = 204
    /\ lastReq.before = section
    /\ \E s \in Sessions : quiet[s] /\ Waiting(s) /\ sinceWrite[s] = 1

\* C7: once the peer's close frame has reached a streaming session, the
\* session eventually reaches Closed, whether or not the section changes
\* again.
C7_CloseFrameCloses ==
    \A s \in Sessions :
        (Open(s) /\ inbound[s] # <<>> /\ Head(inbound[s]) = "Close")
            ~> (pc[s] = "closed")

\* Every handler can be served whatever the sessions are doing (up to the
\* bound on sends)
HandlersServed ==
    version < MaxWrites =>
        /\ ENABLED clear_section
        /\ \A l \in Letters : ENABLED set_section_type(l)
        /\ \A n \in 1..MaxNumber : ENABLED set_section_number(n)

\* What session t holds and has delivered is the same after the step
Untouched(t) ==
    /\ pc'[t] = pc[t]
    /\ rxVersion'[t] = rxVersion[t]
    /\ recvOff'[t] = recvOff[t]
    /\ inbound'[t] = inbound[t]
    /\ msg'[t] = msg[t]
    /\ nPushed'[t] = nPushed[t]
    /\ lastPushed'[t] = lastPushed[t]

\* C8: a step in which a session closes changes neither the section, nor the
\* version (so nobody's pending change), nor anything of another session, and
\* the handlers stay available.
C8_CloseIsolated ==
    /\ [][\A s \in Sessions :
            (Open(s) /\ pc'[s] = "closed") =>
                /\ section' = section
                /\ version' = version
                /\ \A t \in Sessions \ {s} : Untouched(t)]_vars
    /\ [](((\E s \in Sessions : pc[s] = "closed")) => HandlersServed)

C8_Witness ==
    \E s, t \in Sessions :
        /\ pc[s] = "closed"
        /\ why[s] \in {"close frame", "send error"}
        /\ nPushed[s] >= 1
        /\ Waiting(t)
        /\ nPushed[t] >= 1
        /\ lastPushed[t] = Current
        /\ version < MaxWrites

\* C9: a render error or a send error closes the session it happens in and
\* nothing else: no message is counted as pushed in that step, the section and
\* the version are unchanged, every other session is where it was, and the
\* handlers stay available.
C9_FailureClosesOnlyThatSession ==
    /\ [][\A s \in Sessions :
            (pc[s] \in {"render", "send"} /\ pc'[s] = "closed") =>
                /\ nPushed' = nPushed
                /\ section' = section
                /\ version' = version
                /\ lastReq' = lastReq
                /\ \A t \in Sessions \ {s} : pc'[t] = pc[t] /\ rxVersion'[t] = rxVersion[t]]_vars
    /\ []HandlersServed

C9_Witness ==
    \E s, t \in Sessions :
        /\ pc[s] = "closed"
        /\ why[s] = "render error"
        /\ nPushed[s] = 0
        /\ Waiting(t)
        /\ nPushed[t] >= 1
        /\ lastPushed[t] = Current
        /\ version < MaxWrites

\* C10: PUT /section/number with zero or a negative number is answered 422 and
\* leaves the section, the version, every session's pending state and every
\* delivered message as they were.
C10_NonPositiveRejected ==
    [][\A i \in NumberInputs :
         (i <= 0 /\ PutSectionNumber(i)) =>
            /\ lastReq'.status = 422
            /\ section' = section
            /\ version' = version
            /\ nPushed' = nPushed
            /\ rxVersion' = rxVersion
            /\ pc' = pc]_vars

C10_Witness ==
    /\ lastReq.route = "PUT /section/number"
    /\ lastReq.status = 422
    /\ lastReq.input = 0
    /\ version >= 1
    /\ \E s \in Sessions : Waiting(s) /\ nPushed[s] >= 1

\* What the mutations are to do to the section, one by one: SetCategory
\* replaces the pair by the letter with no number, SetNumber replaces the number
\* and keeps the category, Clear leaves neither
Apply(value, op) ==
    CASE op.route = "PUT /section/type" -> <<Some(op.input), None>>
      [] op.route = "PUT /section/number" -> <<value[1], Some(op.input)>>
      [] op.route = "DELETE /section" -> <<None, None>>

RECURSIVE ValueAfter(_)
\* The result of applying the first k requests of ops to (None, None)
ValueAfter(k) ==
    IF k = 0 THEN <<None, None>> ELSE Apply(ValueAfter(k - 1), ops[k])

\* The last k requests that wrote were all to this route
LastWrites(k, route) ==
    /\ Len(ops) >= k
    /\ \A i \in (Len(ops) - k + 1)..Len(ops) : ops[i].route = route

\* C11: DELETE /section is served in every state, answers 204 and leaves the
\* section at (None, None), whose projection is the placeholder; after two of
\* them in a row the section is what it was after the first.
C11_ClearIdempotent ==
    /\ version < MaxWrites => ENABLED (clear_section /\ Untraced)
    /\ lastReq.route = "DELETE /section" =>
         /\ lastReq.status = 204
         /\ section = <<None, None>>
         /\ section_segments_to_string(section) = <<ZeroWidthSpace>>
    /\ LastWrites(2, "DELETE /section") =>
         /\ section = ValueAfter(Len(ops) - 1)
         /\ lastReq.route = "DELETE /section" => section = lastReq.before

\* Clear after Clear, and a page served afterwards shows the placeholder
C11_Witness ==
    /\ LastWrites(2, "DELETE /section")
    /\ lastReq.route = "DELETE /section"
    /\ page # None
    /\ Unwrap(page).idx = Len(ops)
    /\ Unwrap(page).song_section = <<ZeroWidthSpace>>

\* The value a decimal digit stands for
DigitValue(c) ==
    CASE c = "0" -> 0 [] c = "1" -> 1 [] c = "2" -> 2 [] c = "3" -> 3
      [] c = "4" -> 4 [] c = "5" -> 5 [] c = "6" -> 6 [] c = "7" -> 7
      [] c = "8" -> 8 [] c = "9" -> 9

RECURSIVE NumberOf(_)
\* The number a sequence of decimal digits denotes
NumberOf(digits) ==
    IF digits = <<>> THEN 0
    ELSE NumberOf(SubSeq(digits, 1, Len(digits) - 1)) * 10
         + DigitValue(digits[Len(digits)])

\* text is the decimal representation of k: digits only, no leading zero,
\* denoting k
IsDecimalOf(text, k) ==
    /\ Len(text) >= 1
    /\ \A i \in 1..Len(text) :
           text[i] \in {"0", "1", "2", "3", "4", "5", "6", "7", "8", "9"}
    /\ Len(text) > 1 => text[1] # "0"
    /\ NumberOf(text) = k

\* text is what the section value is to be displayed as
Projects(value, text) ==
    /\ value[1] = None => text = <<ZeroWidthSpace>>
    /\ (IsSome(value[1]) /\ value[2] = None) => text = <<Unwrap(value[1])>>
    /\ (IsSome(value[1]) /\ IsSome(value[2])) =>
         /\ Len(text) >= 2
         /\ Head(text) = Unwrap(value[1])
         /\ IsDecimalOf(Tail(text), Unwrap(value[2]))

\* C12: the song_section a page handler computes from the section it read is
\* the one placeholder character when there is no letter (with or without a
\* number), the letter alone when there is no number, and the letter followed
\* by the number in decimal otherwise; so is the projection of the section held.
C12_Projection ==
    /\ Projects(section, section_segments_to_string(section))
    /\ (page # None /\ Unwrap(page).status = 200) =>
           Projects(Unwrap(page).seen, Unwrap(page).song_section)

\* A page was rendered from a letter and a number of two digits
C12_Witness ==
    /\ page # None
    /\ Unwrap(page).status = 200
    /\ IsSome(Unwrap(page).seen[1])
    /\ IsSome(Unwrap(page).seen[2])
    /\ Unwrap(Unwrap(page).seen[2]) >= 10
    /\ Len(Unwrap(page).song_section) = 3

\* C13: a session that was waiting in its select! when the section changed,
\* and has a close frame next in line from the peer, leaves the select! only
\* by closing, and pushes nothing for the change.
C13_ClosePriority ==
    [][\A s \in Sessions :
         (/\ pc[s] = "select"
          /\ quiet[s]
          /\ inbound[s] # <<>>
          /\ Head(inbound[s]) = "Close"
          /\ rxVersion[s] # version
          /\ pc'[s] # "select")
            => (pc'[s] = "closed" /\ nPushed'[s] = nPushed[s])]_vars

\* C14: a session whose inbound stream has ended without a close frame (recv()
\* yields None, or an error and then None) is closed sooner or later, whether or
\* not the section changes again.
C14_TransportEndCloses ==
    \A s \in Sessions :
        (Open(s) /\ inbound[s] # <<>> /\ Head(inbound[s]) = "End")
            ~> (pc[s] = "closed")

\* The fragment that shows the result of the first k requests of ops
FragmentAfter(k) ==
    Some(RenderFragment(section_segments_to_string(ValueAfter(k))))

\* C15: whenever a session delivers a message, the message shows the result
\* of some number of the writes in their order, and that number is not smaller
\* than for the message the session delivered before: no older section after a
\* newer one.
C15_PushedInWriteOrder ==
    [][\A s \in Sessions :
         nPushed'[s] = nPushed[s] + 1 =>
             /\ lastIdx'[s] \in 0..Len(ops)
             /\ lastPushed'[s] = FragmentAfter(lastIdx'[s])
             /\ lastIdx'[s] >= lastIdx[s]]_vars

\* A session has delivered two messages, the second for the second write
C15_Witness ==
    \E s \in Sessions :
        /\ pc[s] = "select"
        /\ nPushed[s] = 2
        /\ lastIdx[s] = 2
        /\ lastPushed[s] = FragmentAfter(2)

\* C16: the requests that wrote form one sequence; the section held is the
\* result of applying all of them to (None, None), and what a session rendered
\* or delivered and what a page handler read is the result of applying the
\* first few of them, never a pair made of two different results.
C16_ReadsAreLinearized ==
    /\ Len(ops) = version
    /\ section = ValueAfter(version)
    /\ \A s \in Sessions :
           /\ pc[s] = "send" =>
                  /\ msgIdx[s] \in 0..version
                  /\ msg[s] = FragmentAfter(msgIdx[s])
           /\ lastPushed[s] # None =>
                  /\ lastIdx[s] \in 0..version
                  /\ lastPushed[s] = FragmentAfter(lastIdx[s])
    /\ page # None =>
           /\ Unwrap(page).idx \in 0..version
           /\ Unwrap(page).seen = ValueAfter(Unwrap(page).idx)
           /\ Unwrap(page).status = 200 =>
                  Unwrap(page).song_section =
                      section_segments_to_string(ValueAfter(Unwrap(page).idx))

\* A number was set and a letter after it, which reset the number; a page
\* handler and a session have both read the section since
C16_Witness ==
    /\ Len(ops) = 2
    /\ ops[1].route = "PUT /section/number"
    /\ ops[2].route = "PUT /section/type"
    /\ page # None
    /\ Unwrap(page).status = 200
    /\ Unwrap(page).idx = 2
    /\ Unwrap(page).seen = <<Some(ops[2].input), None>>
    /\ \E s \in Sessions :
           /\ lastIdx[s] = 2
           /\ lastPushed[s] = FragmentAfter(2)

\* The steps session t can take on its own account are not held up
Unhindered(t) ==
    /\ pc[t] = "render" => ENABLED (RenderOk(t) /\ Untraced)
    /\ pc[t] = "send" => ENABLED (SendOk(t) /\ Untraced)
    /\ (pc[t] = "select" /\ rxVersion[t] # version
          /\ (recvOff[t] \/ ~RecvReady(t))) => ENABLED (Changed(t) /\ Untraced)

\* C17: no task holds a Ref of the channel while it is suspended in select!
\* or in socket.send, so the three control handlers can write in every state,
\* also while a session is in socket.send; and a session in socket.send holds
\* up no step of another session.
C17_HandlersNeverWait ==
    /\ \A s \in Sessions : pc[s] \in {"select", "send"} => ~guard[s]
    /\ HandlersServed
    /\ \A s \in Sessions : \A t \in Sessions \ {s} :
           pc[s] = "send" => Unhindered(t)

\* A session is still in socket.send with a message rendered before the last
\* write, and another session has delivered the section as it is now
C17_Witness ==
    \E s \in Sessions : \E t \in Sessions \ {s} :
        /\ pc[s] = "send"
        /\ msg[s] # Current
        /\ lastReq.status = 204
        /\ Waiting(t)
        /\ lastPushed[t] = Current

\* Among the first k requests of ops, a PUT /section/number carrying n comes
\* after the last PUT /section/type, and there is such a PUT /section/type
NumberSetSinceType(k, n) ==
    \E i \in 1..k :
        /\ ops[i].route = "PUT /section/type"
        /\ \A j \in (i + 1)..k : ops[j].route # "PUT /section/type"
        /\ \E j \in (i + 1)..k :
               /\ ops[j].route = "PUT /section/number"
               /\ ops[j].input = n

\* C18: PUT /section/number with a positive number is served while there is no
\* letter, and leaves (None, Some(n)), displayed as the placeholder.  Whenever
\* the projection of the section, or the song_section of a page, shows a
\* number, that number was set by a PUT /section/number that came after the
\* last PUT /section/type.
C18_OrphanNumberStaysHidden ==
    /\ (version < MaxWrites /\ section[1] = None) =>
           \A n \in 1..MaxPageNumber :
               ENABLED (set_section_number(n) /\ Untraced)
    /\ (/\ lastReq.route = "PUT /section/number"
        /\ lastReq.status = 204
        /\ lastReq.before[1] = None) =>
           /\ section = <<None, Some(lastReq.input)>>
           /\ section_segments_to_string(section) = <<ZeroWidthSpace>>
    /\ Len(section_segments_to_string(section)) > 1 =>
           /\ IsSome(section[2])
           /\ NumberSetSinceType(Len(ops), Unwrap(section[2]))
    /\ (page # None /\ Len(Unwrap(page).song_section) > 1) =>
           /\ IsSome(Unwrap(page).seen[2])
           /\ NumberSetSinceType(Unwrap(page).idx, Unwrap(Unwrap(page).seen[2]))

\* A number was set while there was no letter, then a letter, and the page
\* served after that shows the letter alone
C18_Witness ==
    /\ Len(ops) = 2
    /\ ops[1].route = "PUT /section/number"
    /\ ops[2].route = "PUT /section/type"
    /\ page # None
    /\ Unwrap(page).status = 200
    /\ Unwrap(page).idx = 2
    /\ Unwrap(page).song_section = <<ops[2].input>>

\* C19: a session has delivered at most as many messages as there were sends
\* on the channel, and at most one more than there were sends since it
\* connected; with nothing unseen it has no message in hand and none on the way.
C19_PushesBoundedBySends ==
    \A s \in Sessions :
        /\ nPushed[s] <= version
        /\ Open(s) =>
               /\ nPushed[s] <= 1 + (version - connVersion[s])
               /\ (pc[s] = "select" /\ nPushed[s] = 1 + (version - connVersion[s]))
                      => rxVersion[s] = version
        /\ Waiting(s) =>
               /\ msg[s] = None
               /\ ~ENABLED (Changed(s) /\ Untraced)
               /\ ~ENABLED (SendOk(s) /\ Untraced)

\* One session found a send pending when it connected and has delivered a
\* message for it and one for the send that followed: the bound is reached.
\* The other was there from the start and has delivered one message for both
\* sends.
C19_Witness ==
    \E s \in Sessions : \E t \in Sessions \ {s} :
        /\ Waiting(s)
        /\ connVersion[s] >= 1
        /\ version > connVersion[s]
        /\ nPushed[s] = 1 + (version - connVersion[s])
        /\ Waiting(t)
        /\ connVersion[t] = 0
        /\ nPushed[t] = 1
        /\ lastPushed[t] = Current

\* C20: the leaked Sender is alive in every state, so changed() never returns
\* Err: a session with nothing unseen stays in its select!, and no task has
\* returned through the branch that closes the socket for a closed channel.
C20_ChannelNeverClosed ==
    /\ senders >= 1
    /\ \A s \in Sessions :
           /\ why[s] # "channel closed"
           /\ (pc[s] = "select" /\ rxVersion[s] = version
                 /\ (recvOff[s] \/ ~RecvReady(s)))
                  => ~ENABLED (Changed(s) /\ Untraced)

\* After the last send the bounds allow, a session that has delivered waits on
\* changed() alone, and another has returned for a reason of its own
C20_Witness ==
    \E s \in Sessions : \E t \in Sessions \ {s} :
        /\ version = MaxWrites
        /\ Waiting(s)
        /\ recvOff[s]
        /\ nPushed[s] >= 1
        /\ pc[t] = "closed"
        /\ why[t] \in {"close frame", "render error", "send error"}

====
